---- MODULE Spec2Model ----
(***************************************************************************)
(* Model of src/main.py: the script driver that validates the project      *)
(* endpoint, gets or creates the agent named mcp-docs-assistant, and runs  *)
(* one conversation (thread, message, run, poll loop with tool approval,   *)
(* read-back of run steps and messages).  The remote agent service is the  *)
(* environment: it chooses run statuses, required actions and failures.    *)
(* Sequential executions of the script share the service's state.          *)
(***************************************************************************)
EXTENDS Integers, Sequences, FiniteSets, TLC

VARIABLES
    env,            \* the PROJECT_ENDPOINT entry of the process environment
    sdk,            \* which agent-listing method the installed SDK offers
    svcAgents,      \* service: the agents that exist, in listing order
    nextId,         \* service: the next fresh identifier number
    usedThreads,    \* the thread ids of the conversations of earlier executions
    created,        \* agents create_agent has created, over all executions
    execs,          \* the number of the current execution of the script
    pc,             \* position of the script
    outcome,        \* how the current execution went
    failedAt,       \* where the current execution's failure was raised
    client,         \* whether the project client has been constructed
    approval_mode,  \* mcp_tool's approval mode
    agent,          \* the agent get_or_create_agent returned
    thread,         \* id of the thread of this conversation
    run,            \* the run object last returned by the service
    tool_approvals, \* the approvals built by the poll loop
    returned,       \* run_conversation's return value
    scenario,       \* how far the fetched statuses follow the sample sequence
    log             \* the remote operations issued by this execution, in order

vars == <<env, sdk, svcAgents, nextId, usedThreads, created, execs, pc, outcome,
          failedAt, client, approval_mode, agent, thread, run, tool_approvals,
          returned, scenario, log>>

----------------------------------------------------------------------------
(* Bounds of the model *)

MaxExecs == 2

MaxPolls == 3

MaxCalls == 2

----------------------------------------------------------------------------
(* Configuration *)

AGENT_NAME == "mcp-docs-assistant"

EndpointMarker == "services.ai.azure.com"

EnvEntries ==
    {[set |-> FALSE, value |-> ""]} \cup
    {[set |-> TRUE, value |-> v] : v \in
        {"",
         "https://example.com/api/projects/p",
         "https://r.services.ai.azure.co/api/projects/p",
         "https://r.services.ai.azure.com/api/projects/p"}}

\* os.environ.get(name, default)
EnvironGet(entry, default) == IF entry.set THEN entry.value ELSE default

PROJECT_ENDPOINT == EnvironGet(env, "")

\* needle in hay
Contains(needle, hay) ==
    \E i \in 1..(Len(hay) - Len(needle) + 1) :
        SubSeq(hay, i, i + Len(needle) - 1) = needle

EndpointValidEmptyOnly(e) == e # ""

\* the negation of the condition of the early return
EndpointValid(e) == ~(e = "" \/ ~Contains(EndpointMarker, e))

----------------------------------------------------------------------------
(* The service's values *)

NoId == <<"none", 0>>

Statuses == {"queued", "in_progress", "requires_action",
             "completed", "failed", "cancelled"}

SdkShapes == {"list_agents", "get_agents", "neither"}

ToolCallKinds == {"mcp", "function"}

RECURSIVE KindSeqs(_)
KindSeqs(n) ==
    IF n = 0 THEN {<<>>}
    ELSE LET shorter == KindSeqs(n - 1)
         IN  shorter \cup {Append(s, k) : s \in {t \in shorter : Len(t) = n - 1},
                                          k \in ToolCallKinds}

\* the pending tool calls of an approval request: distinct ids, any kinds
ToolCallLists ==
    {[i \in 1..Len(ks) |-> [id |-> i, kind |-> ks[i]]] : ks \in KindSeqs(MaxCalls)}

NoAction == [kind |-> "none", tool_calls |-> <<>>]

\* what run.required_action may hold for a status
RequiredActions(st) ==
    IF st = "requires_action"
    THEN {[kind |-> "submit_tool_outputs", tool_calls |-> <<>>]} \cup
         {[kind |-> "submit_tool_approval", tool_calls |-> tc] : tc \in ToolCallLists}
    ELSE {NoAction}

NoRun == [id |-> NoId, status |-> "none", required_action |-> NoAction]

NoAgent == [id |-> NoId, name |-> ""]

\* one remote operation: its name, whether it succeeded, the thread and run
\* ids it was given (or, for a creation, it returned), and the agent id given
\* to runs.create
Entry(op, ok, tid, rid) ==
    [op |-> op, ok |-> ok, tid |-> tid, rid |-> rid, aid |-> NoId]

Polls == Len(SelectSeq(log, LAMBDA e : e.op = "runs.get"))

\* the sample status sequence: the run is created queued, then polled
SampleStatuses == <<"queued", "in_progress", "requires_action", "completed">>

NoScenario == [len |-> 0, kind |-> "none"]

OffScenario == [len |-> 0 - 1, kind |-> "none"]

\* the statuses fetched so far (by runs.create, then by each runs.get), kept
\* while they are a prefix of SampleStatuses whose requires_action step
\* carries an approval request with one pending tool call, of kind `kind`
Follow(s, r) ==
    LET n == s.len + 1
    IN  IF s.len < 0 \/ n > Len(SampleStatuses) THEN OffScenario
        ELSE IF r.status # SampleStatuses[n] THEN OffScenario
        ELSE IF r.status = "requires_action"
             THEN IF r.required_action.kind = "submit_tool_approval"
                     /\ Len(r.required_action.tool_calls) = 1
                  THEN [len |-> n, kind |-> r.required_action.tool_calls[1].kind]
                  ELSE OffScenario
             ELSE [len |-> n, kind |-> s.kind]

----------------------------------------------------------------------------
(* Decisions of the script *)

InLoopAlsoCompleted(status) ==
    status \in {"queued", "in_progress", "requires_action", "completed"}

\* the condition of the poll loop
InLoop(status) == status \in {"queued", "in_progress", "requires_action"}

\* the condition of the manual-approval branch
NeedsApproval(r) ==
    r.status = "requires_action" /\ r.required_action.kind = "submit_tool_approval"

NoToolCallsNoMcp(tool_calls) ==
    Len(SelectSeq(tool_calls, LAMBDA c : c.kind = "mcp")) = 0

\* not tool_calls
NoToolCalls(tool_calls) == Len(tool_calls) = 0

RECURSIVE ToolApprovalsAll(_)
ToolApprovalsAll(tool_calls) ==
    IF tool_calls = <<>> THEN <<>>
    ELSE <<[tool_call_id |-> Head(tool_calls).id, approve |-> TRUE]>>
         \o ToolApprovalsAll(Tail(tool_calls))

\* the approvals the loop over tool_calls builds
RECURSIVE ToolApprovals(_)
ToolApprovals(tool_calls) ==
    IF tool_calls = <<>> THEN <<>>
    ELSE LET rest == ToolApprovals(Tail(tool_calls))
             call == Head(tool_calls)
         IN  IF call.kind = "mcp"
             THEN <<[tool_call_id |-> call.id, approve |-> TRUE]>> \o rest
             ELSE rest

\* the first listed agent named AGENT_NAME, NoAgent when there is none
RECURSIVE FindAgent(_)
FindAgent(agents) ==
    IF agents = <<>> THEN NoAgent
    ELSE IF Head(agents).name = AGENT_NAME THEN Head(agents)
         ELSE FindAgent(Tail(agents))

----------------------------------------------------------------------------
(* Initial state: a fresh process against a service that holds another      *)
(* agent, and no agent of this script yet.                                  *)

Locals ==
    /\ pc = "main"
    /\ outcome = "running"
    /\ failedAt = "none"
    /\ client = FALSE
    /\ approval_mode = "always"
    /\ agent = NoAgent
    /\ thread = NoId
    /\ run = NoRun
    /\ tool_approvals = <<>>
    /\ returned = NoId
    /\ scenario = NoScenario
    /\ log = <<>>

Init ==
    /\ env \in EnvEntries
    /\ sdk \in SdkShapes
    /\ svcAgents = <<[id |-> <<"asst", 0>>, name |-> "other-agent"]>>
    /\ nextId = 1
    /\ usedThreads = {}
    /\ created = 0
    /\ execs = 1
    /\ Locals

----------------------------------------------------------------------------
(* main *)

Validate ==
    /\ pc = "main"
    /\ IF EndpointValid(PROJECT_ENDPOINT)
       THEN pc' = "mk_tool" /\ UNCHANGED outcome
       ELSE pc' = "done" /\ outcome' = "warned"
    /\ UNCHANGED <<env, scenario, sdk, svcAgents, nextId, usedThreads, created, execs, failedAt,
                   client, approval_mode, agent, thread, run, tool_approvals,
                   returned, log>>

\* McpTool(...): outside the try block
MakeTool ==
    /\ pc = "mk_tool"
    /\ \E ok \in BOOLEAN :
        IF ok THEN pc' = "mk_client" /\ UNCHANGED <<outcome, failedAt>>
        ELSE pc' = "done" /\ outcome' = "crashed" /\ failedAt' = "tool"
    /\ UNCHANGED <<env, scenario, sdk, svcAgents, nextId, usedThreads, created, execs, client,
                   approval_mode, agent, thread, run, tool_approvals, returned, log>>

\* DefaultAzureCredential(), AIProjectClient(...): outside the try block
MakeClient ==
    /\ pc = "mk_client"
    /\ \E ok \in BOOLEAN :
        IF ok THEN pc' = "list_agents" /\ client' = TRUE /\ UNCHANGED <<outcome, failedAt>>
        ELSE pc' = "done" /\ outcome' = "crashed" /\ failedAt' = "client"
                /\ UNCHANGED client
    /\ UNCHANGED <<env, scenario, sdk, svcAgents, nextId, usedThreads, created, execs,
                   approval_mode, agent, thread, run, tool_approvals, returned, log>>

RaiseAndRetry(op, tid, rid) ==
    /\ log' = Append(log, Entry(op, FALSE, tid, rid))
    /\ pc' = pc
    /\ failedAt' = "remote"

\* an exception raised inside the try block
Raise(op, tid, rid) ==
    /\ log' = Append(log, Entry(op, FALSE, tid, rid))
    /\ pc' = "caught"
    /\ failedAt' = "remote"

\* the for loop over the listed agents
Lookup(agents) ==
    LET found == FindAgent(agents)
    IN  IF found # NoAgent
        THEN agent' = found /\ pc' = "thread_create"
        ELSE UNCHANGED agent /\ pc' = "create_agent"

ListAgents ==
    /\ pc = "list_agents"
    /\ IF sdk = "list_agents"
       THEN \E ok \in BOOLEAN :
              IF ok
              THEN /\ log' = Append(log, Entry("list_agents", TRUE, NoId, NoId))
                   /\ Lookup(svcAgents)
                   /\ UNCHANGED failedAt
              ELSE Raise("list_agents", NoId, NoId) /\ UNCHANGED agent
       ELSE \* AttributeError
            pc' = "get_agents" /\ UNCHANGED <<log, agent, failedAt>>
    /\ UNCHANGED <<env, scenario, sdk, svcAgents, nextId, usedThreads, created, execs, outcome,
                   client, approval_mode, thread, run, tool_approvals, returned>>

GetAgents ==
    /\ pc = "get_agents"
    /\ IF sdk = "get_agents"
       THEN \E ok \in BOOLEAN :
              IF ok
              THEN /\ log' = Append(log, Entry("get_agents", TRUE, NoId, NoId))
                   /\ Lookup(svcAgents)
                   /\ UNCHANGED failedAt
              ELSE Raise("get_agents", NoId, NoId) /\ UNCHANGED agent
       ELSE \* AttributeError: agents = []
            Lookup(<<>>) /\ UNCHANGED <<log, failedAt>>
    /\ UNCHANGED <<env, scenario, sdk, svcAgents, nextId, usedThreads, created, execs, outcome,
                   client, approval_mode, thread, run, tool_approvals, returned>>

CreateAgent ==
    /\ pc = "create_agent"
    /\ \E ok \in BOOLEAN :
        IF ok
        THEN LET new == [id |-> <<"asst", nextId>>, name |-> AGENT_NAME]
             IN  /\ svcAgents' = Append(svcAgents, new)
                 /\ nextId' = nextId + 1
                 /\ agent' = new
                 /\ created' = created + 1
                 /\ log' = Append(log, Entry("create_agent", TRUE, NoId, NoId))
                 /\ pc' = "thread_create"
                 /\ UNCHANGED failedAt
        ELSE Raise("create_agent", NoId, NoId)
             /\ UNCHANGED <<svcAgents, nextId, agent, created>>
    /\ UNCHANGED <<env, scenario, sdk, usedThreads, execs, outcome, client, approval_mode, thread,
                   run, tool_approvals, returned>>

----------------------------------------------------------------------------
(* run_conversation *)

ThreadCreate ==
    /\ pc = "thread_create"
    /\ \E ok \in BOOLEAN :
        IF ok
        THEN /\ thread' = <<"thread", nextId>>
             /\ nextId' = nextId + 1
             /\ log' = Append(log, Entry("threads.create", TRUE, thread', NoId))
             /\ pc' = "message_create"
             /\ UNCHANGED failedAt
        ELSE Raise("threads.create", NoId, NoId) /\ UNCHANGED <<thread, nextId>>
    /\ UNCHANGED <<env, scenario, sdk, svcAgents, usedThreads, created, execs, outcome, client,
                   approval_mode, agent, run, tool_approvals, returned>>

MessageCreate ==
    /\ pc = "message_create"
    /\ \E ok \in BOOLEAN :
        IF ok
        THEN /\ log' = Append(log, Entry("messages.create", TRUE, thread, NoId))
             /\ pc' = "run_create"
             /\ UNCHANGED failedAt
        ELSE Raise("messages.create", thread, NoId)
    /\ UNCHANGED <<env, scenario, sdk, svcAgents, nextId, usedThreads, created, execs, outcome,
                   client, approval_mode, agent, thread, run, tool_approvals, returned>>

\* mcp_tool.set_approval_mode("never"), then runs.create
RunCreate ==
    /\ pc = "run_create"
    /\ approval_mode' = "never"
    /\ \E ok \in BOOLEAN :
        IF ok
        THEN \E st \in Statuses :
               /\ run' = [id |-> <<"run", nextId>>, status |-> st,
                          required_action |-> NoAction]
               /\ nextId' = nextId + 1
               /\ scenario' = Follow(scenario, run')
               /\ log' = Append(log, [Entry("runs.create", TRUE, thread, run'.id)
                                         EXCEPT !.aid = agent.id])
               /\ pc' = "loop"
               /\ UNCHANGED failedAt
        ELSE Raise("runs.create", thread, NoId) /\ UNCHANGED <<run, nextId, scenario>>
    /\ UNCHANGED <<env, sdk, svcAgents, usedThreads, created, execs, outcome, client,
                   agent, thread, tool_approvals, returned>>

\* while run.status in [...]
LoopTest ==
    /\ pc = "loop"
    /\ pc' = IF InLoop(run.status) THEN "poll" ELSE "after_loop"
    /\ UNCHANGED <<env, scenario, sdk, svcAgents, nextId, usedThreads, created, execs, outcome,
                   failedAt, client, approval_mode, agent, thread, run, tool_approvals,
                   returned, log>>

\* time.sleep(1); runs.get; the manual-approval branch up to its remote call
Poll ==
    /\ pc = "poll"
    /\ Polls < MaxPolls
    /\ \E ok \in BOOLEAN :
        IF ok
        THEN \E st \in Statuses : \E ra \in RequiredActions(st) :
               /\ run' = [id |-> run.id, status |-> st, required_action |-> ra]
               /\ scenario' = Follow(scenario, run')
               /\ log' = Append(log, Entry("runs.get", TRUE, thread, run.id))
               /\ IF NeedsApproval(run')
                  THEN IF NoToolCalls(ra.tool_calls)
                       THEN pc' = "cancel" /\ UNCHANGED tool_approvals
                       ELSE /\ tool_approvals' = ToolApprovals(ra.tool_calls)
                            /\ pc' = IF tool_approvals' # <<>> THEN "submit" ELSE "loop"
                  ELSE pc' = "loop" /\ UNCHANGED tool_approvals
               /\ UNCHANGED failedAt
        ELSE Raise("runs.get", thread, run.id)
             /\ UNCHANGED <<run, tool_approvals, scenario>>
    /\ UNCHANGED <<env, sdk, svcAgents, nextId, usedThreads, created, execs, outcome,
                   client, approval_mode, agent, thread, returned>>

\* runs.cancel; break
Cancel ==
    /\ pc = "cancel"
    /\ \E ok \in BOOLEAN :
        IF ok
        THEN /\ log' = Append(log, Entry("runs.cancel", TRUE, thread, run.id))
             /\ pc' = "after_loop"
             /\ UNCHANGED failedAt
        ELSE Raise("runs.cancel", thread, run.id)
    /\ UNCHANGED <<env, scenario, sdk, svcAgents, nextId, usedThreads, created, execs, outcome,
                   client, approval_mode, agent, thread, run, tool_approvals, returned>>

SubmitTwice ==
    /\ pc = "submit"
    /\ log' = Append(log, Entry("runs.submit_tool_outputs", TRUE, thread, run.id))
    /\ pc' = IF log[Len(log)].op = "runs.submit_tool_outputs" THEN "loop" ELSE "submit"
    /\ UNCHANGED <<env, scenario, sdk, svcAgents, nextId, usedThreads, created, execs,
                   outcome, failedAt, client, approval_mode, agent, thread, run,
                   tool_approvals, returned>>

\* runs.submit_tool_outputs(tool_approvals=tool_approvals)
Submit ==
    /\ pc = "submit"
    /\ \E ok \in BOOLEAN :
        IF ok
        THEN /\ log' = Append(log, Entry("runs.submit_tool_outputs", TRUE, thread, run.id))
             /\ pc' = "loop"
             /\ UNCHANGED failedAt
        ELSE Raise("runs.submit_tool_outputs", thread, run.id)
    /\ UNCHANGED <<env, scenario, sdk, svcAgents, nextId, usedThreads, created, execs, outcome,
                   client, approval_mode, agent, thread, run, tool_approvals, returned>>

\* if run.status == "failed": ... else: ...
AfterLoop ==
    /\ pc = "after_loop"
    /\ pc' = IF run.status = "failed" THEN "return" ELSE "list_steps"
    /\ UNCHANGED <<env, scenario, sdk, svcAgents, nextId, usedThreads, created, execs, outcome,
                   failedAt, client, approval_mode, agent, thread, run, tool_approvals,
                   returned, log>>

ListSteps ==
    /\ pc = "list_steps"
    /\ \E ok \in BOOLEAN :
        IF ok
        THEN /\ log' = Append(log, Entry("run_steps.list", TRUE, thread, run.id))
             /\ pc' = "list_messages"
             /\ UNCHANGED failedAt
        ELSE Raise("run_steps.list", thread, run.id)
    /\ UNCHANGED <<env, scenario, sdk, svcAgents, nextId, usedThreads, created, execs, outcome,
                   client, approval_mode, agent, thread, run, tool_approvals, returned>>

ListMessages ==
    /\ pc = "list_messages"
    /\ \E ok \in BOOLEAN :
        IF ok
        THEN /\ log' = Append(log, Entry("messages.list", TRUE, thread, NoId))
             /\ pc' = "return"
             /\ UNCHANGED failedAt
        ELSE Raise("messages.list", thread, NoId)
    /\ UNCHANGED <<env, scenario, sdk, svcAgents, nextId, usedThreads, created, execs, outcome,
                   client, approval_mode, agent, thread, run, tool_approvals, returned>>

ReturnRunId ==
    /\ pc = "return"
    /\ returned' = run.id
    /\ outcome' = "completed"
    /\ pc' = "done"
    /\ UNCHANGED <<env, scenario, sdk, svcAgents, nextId, usedThreads, created, execs,
                   failedAt, client, approval_mode, agent, thread, run, tool_approvals,
                   log>>

\* return thread.id, then the end of the with block and of main
Return ==
    /\ pc = "return"
    /\ returned' = thread
    /\ outcome' = "completed"
    /\ pc' = "done"
    /\ UNCHANGED <<env, scenario, sdk, svcAgents, nextId, usedThreads, created, execs, failedAt,
                   client, approval_mode, agent, thread, run, tool_approvals, log>>

\* except Exception as e: print, traceback, tip
Caught ==
    /\ pc = "caught"
    /\ outcome' = "caught"
    /\ pc' = "done"
    /\ UNCHANGED <<env, scenario, sdk, svcAgents, nextId, usedThreads, created, execs, failedAt,
                   client, approval_mode, agent, thread, run, tool_approvals, returned,
                   log>>

\* the script is executed again, against the same service
Restart ==
    /\ pc = "done"
    /\ execs < MaxExecs
    /\ execs' = execs + 1
    /\ env' \in EnvEntries
    /\ sdk' \in SdkShapes
    /\ usedThreads' = IF thread = NoId THEN usedThreads ELSE usedThreads \cup {thread}
    /\ pc' = "main"
    /\ outcome' = "running"
    /\ failedAt' = "none"
    /\ client' = FALSE
    /\ approval_mode' = "always"
    /\ agent' = NoAgent
    /\ thread' = NoId
    /\ run' = NoRun
    /\ tool_approvals' = <<>>
    /\ returned' = NoId
    /\ scenario' = NoScenario
    /\ log' = <<>>
    /\ UNCHANGED <<svcAgents, nextId, created>>

Next ==
    \/ Validate \/ MakeTool \/ MakeClient
    \/ ListAgents \/ GetAgents \/ CreateAgent
    \/ ThreadCreate \/ MessageCreate \/ RunCreate
    \/ LoopTest \/ Poll \/ Cancel \/ Submit
    \/ AfterLoop \/ ListSteps \/ ListMessages
    \/ Return \/ Caught \/ Restart

Spec == Init /\ [][Next]_vars

----------------------------------------------------------------------------
(* The specification under the assumption of the termination claim: the     *)
(* script keeps running, and the service reports a status outside the poll  *)
(* loop's set within the polls the model allows.                            *)

ServiceTerminates ==
    (pc = "poll" /\ Polls + 1 >= MaxPolls) =>
        (pc' = "caught" \/ run'.status \notin {"queued", "in_progress", "requires_action"})

LivePoll == Poll /\ ServiceTerminates

LiveNext ==
    \/ Validate \/ MakeTool \/ MakeClient
    \/ ListAgents \/ GetAgents \/ CreateAgent
    \/ ThreadCreate \/ MessageCreate \/ RunCreate
    \/ LoopTest \/ LivePoll \/ Cancel \/ Submit
    \/ AfterLoop \/ ListSteps \/ ListMessages
    \/ Return \/ Caught \/ Restart

LiveSpec == Init /\ [][LiveNext]_vars /\ WF_vars(LiveNext)

----------------------------------------------------------------------------
(* Vocabulary of the properties *)

ActiveStatuses == {"queued", "in_progress", "requires_action"}

LoopPcs == {"loop", "poll", "cancel", "submit"}

LastOp == IF log = <<>> THEN Entry("none", TRUE, NoId, NoId) ELSE log[Len(log)]

Issued(op) == Len(SelectSeq(log, LAMBDA e : e.op = op))

ApprovalRequested ==
    run.status = "requires_action" /\ run.required_action.kind = "submit_tool_approval"

Pending == run.required_action.tool_calls

PendingMcp == {i \in 1..Len(Pending) : Pending[i].kind = "mcp"}

\* approvals with approve=True for tool call id
ApprovalsOf(id) ==
    {j \in 1..Len(tool_approvals) :
        tool_approvals[j].tool_call_id = id /\ tool_approvals[j].approve}

Polled == LastOp.op = "runs.get" /\ LastOp.ok

Submitted == LastOp.op = "runs.submit_tool_outputs" /\ LastOp.ok

\* the operations of run_conversation, without those of get_or_create_agent
Conversation ==
    SelectSeq(log, LAMBDA e : e.op \notin {"list_agents", "get_agents", "create_agent"})

NamedAgents == Len(SelectSeq(svcAgents, LAMBDA a : a.name = AGENT_NAME))

----------------------------------------------------------------------------
(* C1 *)

\* C1: run steps and messages are read only when the most recently fetched
\* run status is outside {queued, in_progress, requires_action}.
C1_ReadsOnlyAfterTerminal ==
    (Issued("run_steps.list") > 0 \/ Issued("messages.list") > 0)
        => run.status \notin ActiveStatuses

----------------------------------------------------------------------------
(* C2 *)

\* C2, as stated: once the handling of a poll that returned an approval
\* request is over, every pending tool call, whatever its kind, has exactly
\* one approve=True entry in the approvals submitted, and nothing is left
\* unapproved.
C2_EveryPendingCallApproved ==
    ApprovalRequested =>
        /\ Submitted =>
             \A i \in 1..Len(Pending) : Cardinality(ApprovalsOf(Pending[i].id)) = 1
        /\ (Polled /\ pc = "loop") => Pending = <<>>

\* C2, amended: the approvals submitted for a poll hold exactly one
\* approve=True entry for each pending MCP tool call and no entry for a tool
\* call of another kind; when no pending call is an MCP call, nothing is
\* submitted for that poll.
C2_EveryPendingMcpCallApproved ==
    ApprovalRequested =>
        /\ (Submitted \/ pc = "submit") =>
             /\ \A i \in PendingMcp : Cardinality(ApprovalsOf(Pending[i].id)) = 1
             /\ \A i \in 1..Len(Pending) \ PendingMcp : ApprovalsOf(Pending[i].id) = {}
             /\ Len(tool_approvals) = Cardinality(PendingMcp)
             /\ \A j \in 1..Len(tool_approvals) : tool_approvals[j].approve
        /\ (Polled /\ pc = "loop") => (PendingMcp = {} /\ Pending # <<>>)

C2_Witness ==
    /\ Submitted
    /\ ApprovalRequested
    /\ PendingMcp # {}
    /\ \E i \in 1..Len(Pending) : Pending[i].kind = "function"

----------------------------------------------------------------------------
(* C3 *)

\* C3, as stated: after every poll that returns an approval request carrying
\* at least one pending tool call the next operation is the one approval
\* submission, and the sample sequence with one pending tool call ends with
\* exactly one submission.
C3_OneSubmissionPerPendingPoll ==
    /\ (Polled /\ ApprovalRequested /\ Len(Pending) >= 1) => pc = "submit"
    /\ scenario.len = Len(SampleStatuses) => Issued("runs.submit_tool_outputs") = 1

\* C3, amended: a submission is issued after a poll, once, exactly when the
\* poll returned an approval request carrying at least one pending MCP tool
\* call; the sample sequence ends with one submission when its pending tool
\* call is an MCP call and with none when it is not.
C3_OneSubmissionPerMcpPoll ==
    /\ Polled => (pc = "submit" <=> (ApprovalRequested /\ PendingMcp # {}))
    /\ pc = "submit" => Polled
    /\ \A i \in 1..Len(log) :
         log[i].op = "runs.submit_tool_outputs" =>
            i > 1 /\ log[i - 1].op = "runs.get" /\ log[i - 1].ok
    /\ scenario.len = Len(SampleStatuses) =>
         Issued("runs.submit_tool_outputs") = IF scenario.kind = "mcp" THEN 1 ELSE 0

C3_Witness ==
    /\ scenario.len = Len(SampleStatuses)
    /\ scenario.kind = "mcp"
    /\ outcome = "completed"

----------------------------------------------------------------------------
(* C4 *)

----------------------------------------------------------------------------
(* C5 *)

\* C5, as stated: no request to cancel the run is ever issued.
C5_NeverCancels == Issued("runs.cancel") = 0 /\ pc # "cancel"

\* C5, amended: a cancel request is issued at most once per conversation,
\* right after a poll that returned an approval request listing no tool call,
\* and exactly then; no poll or submission follows it.
C5_CancelsOnlyEmptyRequest ==
    /\ Issued("runs.cancel") <= 1
    /\ (pc = "cancel" \/ LastOp.op = "runs.cancel") =>
          (ApprovalRequested /\ Pending = <<>>)
    /\ pc = "cancel" => Polled
    /\ (Polled /\ ApprovalRequested /\ Pending = <<>>) => pc = "cancel"
    /\ \A i \in 1..Len(log) :
         log[i].op = "runs.cancel" =>
            /\ i > 1 /\ log[i - 1].op = "runs.get" /\ log[i - 1].ok
            /\ \A j \in (i + 1)..Len(log) :
                 log[j].op \notin {"runs.get", "runs.submit_tool_outputs", "runs.cancel"}

C5_Witness == LastOp.op = "runs.cancel" /\ LastOp.ok /\ Issued("runs.get") >= 2

----------------------------------------------------------------------------
(* C6 *)

\* C6: with the endpoint empty (or unset) or without the substring
\* services.ai.azure.com, main warns and returns: no client is constructed
\* and no remote operation is issued.
C6_InvalidEndpointShortCircuits ==
    LET e == IF env.set THEN env.value ELSE ""
        invalid == e = "" \/ ~Contains("services.ai.azure.com", e)
    IN  invalid =>
          /\ pc \in {"main", "done"}
          /\ pc = "done" => outcome = "warned"
          /\ log = <<>>
          /\ ~client
          /\ agent = NoAgent /\ thread = NoId /\ run = NoRun

C6_Witness ==
    /\ pc = "done"
    /\ outcome = "warned"
    /\ env.set
    /\ env.value = "https://r.services.ai.azure.co/api/projects/p"

----------------------------------------------------------------------------
(* C7 *)

\* C7, as stated: every failure raised after the endpoint validation ends in
\* the catch-all.
C7_EveryFailureCaught ==
    (pc = "done" /\ failedAt # "none") => outcome = "caught"

\* C7, amended: a failure of a remote operation, all of which run inside the
\* try block, is caught by the catch-all, which ends the script; the failed
\* operation is the last one issued, none before it failed and none is
\* issued again.  A failure of the tool, credential or client construction,
\* which precede the try block, is not caught: it ends the script before any
\* remote operation.
C7_FailureEndsTheScript ==
    /\ failedAt = "remote" =>
          /\ pc \in {"caught", "done"}
          /\ pc = "done" => outcome = "caught"
          /\ log # <<>> /\ ~LastOp.ok
    /\ \A i \in 1..Len(log) : ~log[i].ok => (i = Len(log) /\ failedAt = "remote")
    /\ failedAt \in {"tool", "client"} =>
          pc = "done" /\ outcome = "crashed" /\ log = <<>>
    /\ outcome = "caught" => failedAt = "remote"
    /\ outcome = "crashed" => failedAt \in {"tool", "client"}

C7_Witness ==
    /\ pc = "done"
    /\ outcome = "caught"
    /\ LastOp.op = "runs.submit_tool_outputs"
    /\ ~LastOp.ok

----------------------------------------------------------------------------
(* C8 *)

\* C8: over the sequential executions of the script the agent is created at
\* most once; when an agent named mcp-docs-assistant exists, no other is
\* created and the one returned is an existing one; so at most one agent of
\* that name exists at any time.
C8_AgentCreatedOnce ==
    /\ created <= 1
    /\ NamedAgents <= 1
    /\ (pc = "create_agent" => NamedAgents = 0)

----------------------------------------------------------------------------
(* C9 *)

----------------------------------------------------------------------------
(* C10 *)

\* C10: a conversation issues one thread creation, then one message on that
\* thread, then one run creation on it for the agent get_or_create_agent
\* returned, then polls, submissions, a cancel and reads that all carry that
\* thread id and that run id; it returns that thread id, which no earlier
\* conversation used.
C10_FixedOrderSameIds ==
    LET c == Conversation
        n == Len(c)
    IN  /\ n >= 1 => c[1].op = "threads.create"
        /\ n >= 2 => c[2].op = "messages.create"
        /\ n >= 3 => c[3].op = "runs.create"
        /\ \A i \in 4..n :
             c[i].op \in {"runs.get", "runs.submit_tool_outputs", "runs.cancel",
                          "run_steps.list", "messages.list"}
        /\ (n >= 1 /\ c[1].ok) =>
             /\ c[1].tid # NoId /\ c[1].tid = thread /\ c[1].tid \notin usedThreads
             /\ \A i \in 2..n : c[i].tid = c[1].tid
        /\ (n >= 3 /\ c[3].ok) =>
             /\ c[3].rid # NoId /\ c[3].rid = run.id
             /\ c[3].aid = agent.id /\ agent.name = "mcp-docs-assistant"
             /\ \E k \in 1..Len(svcAgents) : svcAgents[k] = agent
             /\ \A i \in 4..n : c[i].op # "messages.list" => c[i].rid = c[3].rid
        /\ returned # NoId => (n >= 1 /\ returned = c[1].tid)
        /\ outcome = "completed" => (returned # NoId /\ n >= 3)

C10_Witness ==
    /\ outcome = "completed"
    /\ execs = 2
    /\ usedThreads # {}
    /\ Issued("runs.get") >= 1
    /\ Issued("runs.submit_tool_outputs") >= 1

====
